---- MODULE Spec2Model ----
(***************************************************************************)
(* Model of src/app.py: the image generation endpoint (POST                *)
(* /generate-image), the fetcher generate_image, and the file server (GET  *)
(* /image/{filename}).  The storage directory "generated" is the only      *)
(* shared state.  Requests are handled by independent workers, so the      *)
(* steps of different requests interleave at the granularity of their      *)
(* file-system operations (open, write of one chunk, existence check).     *)
(* Strings are sequences of one-character strings.                         *)
(***************************************************************************)
EXTENDS Integers, Sequences, FiniteSets, TLC

\* ---- bounds -------------------------------------------------------------
NumGen == 2        \* generation requests
MaxChunks == 2     \* chunks in an upstream response body

\* the generation requests, numbered in the order in which they arrive
GenIds == 1..NumGen

\* ---- strings ------------------------------------------------------------
\* '.jpg', the extension of lines 64 and 123-124
Ext == <<".", "j", "p", "g">>

\* str.endswith
EndsWith(s, suffix) ==
    /\ Len(s) >= Len(suffix)
    /\ SubSeq(s, Len(s) - Len(suffix) + 1, Len(s)) = suffix

\* the characters str(uuid.uuid4()) is drawn from; one identifier is one
\* character of it here
HexDigits == <<"a", "b", "c", "d", "e", "f">>

UuidPool == { <<HexDigits[i]>> : i \in 1..NumGen }

\* uuid.uuid4(): a random identifier, taken to be distinct from every
\* identifier already handed out; the identifiers are named in the order in
\* which they are handed out
Uuid4Colliding(used) == UuidPool
Uuid4(used) ==
    { <<HexDigits[i]>> : i \in { j \in 1..NumGen :
        /\ <<HexDigits[j]>> \notin used
        /\ \A k \in 1..(j - 1) : <<HexDigits[k]>> \in used } }

\* unique_filename = f"{uuid.uuid4()}.jpg"
UniqueFilenameNoExt(u) == u
UniqueFilename(u) == u \o Ext

\* ---- the upstream API -----------------------------------------------------
\* chunk j of the body the API sends in answer to request r: a symbol, so
\* that any two chunks of any two bodies differ
Chunk(r, j) == <<r, j>>

\* status codes: 200, a 2xx that raise_for_status accepts, and a 5xx
Statuses == {200, 204, 500}

\* response.raise_for_status(): HTTPError for 4xx and 5xx
RaiseForStatus(status) == status >= 400 /\ status < 600

\* what the external call has produced so far: conn, a transport error
\* before a status arrived; else the status, the chunks of the body that
\* iter_content has delivered, and error, a transport error met while the
\* body was read
NoUpstream == [conn |-> FALSE, status |-> 0, body |-> <<>>, error |-> FALSE]

\* the outcomes of requests.get(url, params=params, stream=True)
Upstream ==
    { [NoUpstream EXCEPT !.conn = TRUE] }
    \cup { [NoUpstream EXCEPT !.status = s] : s \in Statuses }

\* ---- HTTP responses -------------------------------------------------------
NoResponse == [status |-> 0, detail |-> "", file_path |-> <<>>]

\* f"/image/{filename}"
FilePath(filename) == <<"/image/">> \o filename

\* the route "/image/{filename}": the path parameter
PathParam(path) == Tail(path)

\* generate_image_endpoint, lines 115-118, on the value generate_image
\* returned ("None" or a filename); an exception that escapes the handler
\* ("raised") is answered by the framework with a plain 500
EndpointResponse(ret, filename) ==
    IF ret = "filename" /\ filename # <<>>
    THEN [status |-> 200, detail |-> "", file_path |-> FilePath(filename)]
    ELSE IF ret = "raised"
    THEN [status |-> 500, detail |-> "Internal Server Error", file_path |-> <<>>]
    ELSE [status |-> 500, detail |-> "Image generation failed", file_path |-> <<>>]

VARIABLES
    fs,       \* the directory "generated": file name -> sequence of chunks
    gpc,      \* position of each generation request
    guuid,    \* identifiers handed out by uuid4
    gfile,    \* unique_filename of each generation request
    gup,      \* what the upstream API has answered to the request
    gcalls,   \* external GET calls performed by the request
    gret,     \* outcome of generate_image
    gresp,    \* HTTP response of POST /generate-image
    spath,    \* URL path of the latest retrieval request
    sresp     \* HTTP response of GET /image/{filename} to that request

gvars == <<gpc, guuid, gfile, gup, gcalls, gret, gresp>>
svars == <<spath, sresp>>
vars == <<fs, gpc, guuid, gfile, gup, gcalls, gret, gresp, spath, sresp>>

\* os.listdir(generated_folder)
ListDir(dir) == DOMAIN dir

\* os.path.exists(abs_file_path)
Exists(dir, name) == name \in DOMAIN dir

\* open(file_path, "wb"): create or truncate
OpenWb(dir, name) ==
    [n \in DOMAIN dir \cup {name} |-> IF n = name THEN <<>> ELSE dir[n]]

\* f.write(chunk)
Write(dir, name, chunk) == [dir EXCEPT ![name] = Append(@, chunk)]

NoServeResponse ==
    [status |-> 0, media_type |-> "", filename |-> <<>>, content |-> <<>>,
     listing |-> {}]

\* lines 123-124 of serve_image
NormalizeAlways(filename) == filename \o Ext
Normalize(filename) ==
    IF ~EndsWith(filename, Ext) THEN filename \o Ext ELSE filename

\* serve_image, lines 121-143, on the directory as it is when called
ServeImageRaw(dir, filename) ==
    IF ~Exists(dir, filename)
    THEN [status |-> 404, media_type |-> "", filename |-> <<>>,
          content |-> <<>>, listing |-> ListDir(dir)]
    ELSE [status |-> 200, media_type |-> "image/jpeg",
          filename |-> Normalize(filename), content |-> dir[filename],
          listing |-> {}]
ServeImage(dir, filename) ==
    LET name == Normalize(filename) IN
    IF ~Exists(dir, name)
    THEN [status |-> 404, media_type |-> "", filename |-> <<>>,
          content |-> <<>>, listing |-> ListDir(dir)]
    ELSE [status |-> 200, media_type |-> "image/jpeg", filename |-> name,
          content |-> dir[name], listing |-> {}]

\* names a client asks for: identifiers with and without the extension, and
\* a name that was never generated
Stems == UuidPool \cup { <<"z">> }
RequestNames == Stems \cup { s \o Ext : s \in Stems }

Init ==
    /\ fs = << >>
    /\ gpc = [r \in GenIds |-> "start"]
    /\ guuid = {}
    /\ gfile = [r \in GenIds |-> <<>>]
    /\ gup = [r \in GenIds |-> NoUpstream]
    /\ gcalls = [r \in GenIds |-> 0]
    /\ gret = [r \in GenIds |-> "pending"]
    /\ gresp = [r \in GenIds |-> NoResponse]
    /\ spath = FilePath(<<>>)
    /\ sresp = NoServeResponse

\* the request returns ret from generate_image and the endpoint answers
Return(r, ret) ==
    /\ gret' = [gret EXCEPT ![r] = ret]
    /\ gresp' = [gresp EXCEPT ![r] = EndpointResponse(ret, gfile[r])]
    /\ gpc' = [gpc EXCEPT ![r] = "done"]

\* lines 51-83: request r arrives, the file name is chosen
GenStart(r) ==
    /\ gpc[r] = "start"
    /\ \A p \in GenIds : p < r => gpc[p] # "start"
    /\ \E u \in Uuid4(guuid) :
         /\ guuid' = guuid \cup {u}
         /\ gfile' = [gfile EXCEPT ![r] = UniqueFilename(u)]
    /\ gpc' = [gpc EXCEPT ![r] = "call"]
    /\ UNCHANGED <<fs, gup, gcalls, gret, gresp, svars>>

\* lines 85-100 up to the open: the external call and the status checks
RequestsGetRetry(r) ==
    /\ gpc[r] = "call"
    /\ \E u \in Upstream :
         /\ gcalls' = [gcalls EXCEPT ![r] = @ + 1]
         /\ gup' = [gup EXCEPT ![r] = u]
         /\ IF (u.conn \/ RaiseForStatus(u.status)) /\ gcalls[r] = 0
            THEN UNCHANGED <<gpc, gret, gresp>>
            ELSE IF u.conn \/ RaiseForStatus(u.status)
            THEN Return(r, "None")
            ELSE IF u.status = 200
            THEN /\ gpc' = [gpc EXCEPT ![r] = "open"]
                 /\ UNCHANGED <<gret, gresp>>
            ELSE Return(r, "None")
    /\ UNCHANGED <<fs, guuid, gfile, svars>>
RequestsGetAnySuccess(r) ==
    /\ gpc[r] = "call"
    /\ \E u \in Upstream :
         /\ gcalls' = [gcalls EXCEPT ![r] = @ + 1]
         /\ gup' = [gup EXCEPT ![r] = u]
         /\ IF u.conn \/ RaiseForStatus(u.status)
            THEN Return(r, "None")
            ELSE /\ gpc' = [gpc EXCEPT ![r] = "open"]
                 /\ UNCHANGED <<gret, gresp>>
    /\ UNCHANGED <<fs, guuid, gfile, svars>>
RequestsGet(r) ==
    /\ gpc[r] = "call"
    /\ \E u \in Upstream :
         /\ gcalls' = [gcalls EXCEPT ![r] = @ + 1]
         /\ IF u.conn \/ RaiseForStatus(u.status)
            THEN \* except RequestException: return None
                 /\ gup' = [gup EXCEPT ![r] = u]
                 /\ Return(r, "None")
            ELSE IF u.status = 200
            THEN /\ gup' = [gup EXCEPT ![r] = u]
                 /\ gpc' = [gpc EXCEPT ![r] = "open"]
                 /\ UNCHANGED <<gret, gresp>>
            ELSE \* the else branch prints response.text, which reads the
                 \* body of the streamed response outside the try
                 \E error \in BOOLEAN :
                    /\ gup' = [gup EXCEPT ![r] = [u EXCEPT !.error = error]]
                    /\ Return(r, IF error THEN "raised" ELSE "None")
    /\ UNCHANGED <<fs, guuid, gfile, svars>>

\* line 93: with open(file_path, "wb") as f
OpenFile(r) ==
    /\ gpc[r] = "open"
    /\ fs' = OpenWb(fs, gfile[r])
    /\ gpc' = [gpc EXCEPT ![r] = "write"]
    /\ UNCHANGED <<guuid, gfile, gup, gcalls, gret, gresp, svars>>

\* lines 94-95: iter_content delivers the next chunk and the loop body
\* writes it
WriteChunkSkipFirst(r) ==
    /\ gpc[r] = "write"
    /\ Len(gup[r].body) < MaxChunks
    /\ LET chunk == Chunk(r, Len(gup[r].body) + 1) IN
         /\ gup' = [gup EXCEPT ![r].body = Append(@, chunk)]
         /\ fs' = IF gup[r].body = <<>> THEN fs ELSE Write(fs, gfile[r], chunk)
    /\ UNCHANGED <<gpc, guuid, gfile, gcalls, gret, gresp, svars>>
WriteChunk(r) ==
    /\ gpc[r] = "write"
    /\ Len(gup[r].body) < MaxChunks
    /\ LET chunk == Chunk(r, Len(gup[r].body) + 1) IN
         /\ gup' = [gup EXCEPT ![r].body = Append(@, chunk)]
         /\ fs' = Write(fs, gfile[r], chunk)
    /\ UNCHANGED <<gpc, guuid, gfile, gcalls, gret, gresp, svars>>

\* iter_content raises a transport error inside the loop of lines 94-95;
\* nothing catches it, the with statement closes the file and the error
\* leaves generate_image and the endpoint
StreamError(r) ==
    /\ gpc[r] = "write"
    /\ gup' = [gup EXCEPT ![r].error = TRUE]
    /\ Return(r, "raised")
    /\ UNCHANGED <<fs, guuid, gfile, gcalls, svars>>

\* lines 96-97 and 115-116: iter_content is exhausted, the file is closed
\* and its name returned
GenFinish(r) ==
    /\ gpc[r] = "write"
    /\ Return(r, "filename")
    /\ UNCHANGED <<fs, guuid, gfile, gup, gcalls, svars>>

\* GET /image/{filename}, lines 120-143.  The handler keeps nothing between
\* requests, so the retrievals of all clients form one sequence
ServeRequest ==
    /\ \E n \in RequestNames :
         /\ spath' = FilePath(n)
         /\ sresp' = ServeImage(fs, PathParam(FilePath(n)))
    /\ UNCHANGED <<fs, gvars>>

Next ==
    \/ \E r \in GenIds : GenStart(r)
    \/ \E r \in GenIds : RequestsGet(r)
    \/ \E r \in GenIds : OpenFile(r)
    \/ \E r \in GenIds : WriteChunk(r)
    \/ \E r \in GenIds : StreamError(r)
    \/ \E r \in GenIds : GenFinish(r)
    \/ ServeRequest

Spec == Init /\ [][Next]_vars

\* ---- properties ----------------------------------------------------------

\* a retrieval request has just been answered (a repeated request with the
\* same answer leaves the state as it is)
Served == <<spath, sresp>> # <<spath', sresp'>>

\* C1: whenever POST /generate-image has answered 200 with
\* file_path "/image/<filename>", the file <filename> exists in the storage
\* directory and holds exactly the complete body of the upstream response of
\* that request, in every interleaving of the requests.
C1_SuccessFileComplete ==
    \A r \in GenIds :
        gresp[r].status = 200 =>
            /\ gresp[r].file_path = FilePath(gfile[r])
            /\ Exists(fs, gfile[r])
            /\ fs[gfile[r]] = gup[r].body

C1_Witness ==
    \E r \in GenIds : \E p \in GenIds \ {r} :
        /\ gresp[r].status = 200
        /\ Len(gup[r].body) = MaxChunks
        /\ gpc[p] = "write"

\* C2: a generation request whose external call returns a status other than
\* 200 (4xx, 5xx, or a 2xx that raise_for_status lets through) is answered
\* 500 without a file_path, and it has created no file in the directory.
C2_NonSuccessStatus ==
    \A r \in GenIds :
        (gcalls[r] > 0 /\ ~gup[r].conn /\ gup[r].status # 200) =>
            /\ gpc[r] = "done"
            /\ gresp[r].status = 500
            /\ gresp[r].file_path = <<>>
            /\ ~Exists(fs, gfile[r])
            /\ \A n \in DOMAIN fs :
                 \E p \in GenIds \ {r} : gfile[p] = n /\ gup[p].status = 200

C2_Witness ==
    \E r \in GenIds : \E p \in GenIds \ {r} :
        /\ gup[r].status = 204
        /\ gresp[r].status = 500
        /\ gresp[p].status = 200

\* C3: round trip: a GET of the file_path that a POST /generate-image has
\* returned with 200, made at any later time, is answered 200 with
\* content type image/jpeg and the bytes stored for that file, never 404.
C3_RoundTrip ==
    [][\A r \in GenIds :
         (gresp[r].status = 200 /\ Served /\ spath' = gresp[r].file_path)
         => /\ sresp'.status = 200
            /\ sresp'.media_type = "image/jpeg"
            /\ sresp'.content = fs[gfile[r]]]_vars

C3_Witness ==
    \E r \in GenIds :
        /\ gresp[r].status = 200
        /\ spath = gresp[r].file_path
        /\ sresp.status = 200
        /\ sresp.content = gup[r].body
        /\ Len(gup[r].body) > 0

\* C4: in every state of the directory, a name n without the extension and
\* the name n.jpg get the same answer from GET /image (the same file, or
\* 404 both); a name that ends in .jpg is looked up as it is.
C4_ExtensionOptional ==
    \A n \in RequestNames :
        /\ ~EndsWith(n, Ext) => ServeImage(fs, n) = ServeImage(fs, n \o Ext)
        /\ EndsWith(n, Ext) =>
             /\ ServeImage(fs, n).status = 200 <=> Exists(fs, n)
             /\ ServeImage(fs, n).status = 200 =>
                  /\ ServeImage(fs, n).filename = n
                  /\ ServeImage(fs, n).content = fs[n]

C4_Witness ==
    /\ sresp.status = 200
    /\ ~EndsWith(PathParam(spath), Ext)
    /\ sresp.filename = PathParam(spath) \o Ext
    /\ Exists(fs, PathParam(spath) \o Ext)

\* C5: GET /image/{filename} answers 404 exactly when the normalized name
\* is not in the directory at the time of the request and 200 otherwise;
\* the 404 lists exactly the files of the directory at that time.
C5_NotFoundExactly ==
    [][Served =>
         LET name == Normalize(PathParam(spath')) IN
         /\ sresp'.status = 404 <=> ~Exists(fs, name)
         /\ sresp'.status = 200 <=> Exists(fs, name)
         /\ sresp'.status = 404 => sresp'.listing = DOMAIN fs
         /\ sresp'.status = 200 => sresp'.content = fs[name]]_vars

C5_Witness ==
    /\ sresp.status = 404
    /\ sresp.listing # {}
    /\ PathParam(spath) \in UuidPool

\* C6: any two GET requests for the same file that are both answered 200
\* return the same bytes, whatever requests run between or alongside them.
C6_SameBytes ==
    [][(/\ sresp.status = 200
        /\ sresp'.status = 200
        /\ sresp'.filename = sresp.filename)
       => sresp'.content = sresp.content]_vars

\* C7: a transport error of the external call, while connecting, while
\* receiving the status or while the body is streamed to disk, makes
\* generate_image return None, and the endpoint answers the fixed
\* 500 "Image generation failed".
C7_TransportErrorIsNone ==
    \A r \in GenIds :
        (/\ gpc[r] = "done"
         /\ gup[r].conn \/ (gup[r].status = 200 /\ gup[r].error))
        => /\ gret[r] = "None"
           /\ gresp[r].status = 500
           /\ gresp[r].detail = "Image generation failed"

\* C8: a generation request performs exactly one external call, never a
\* second one, and it is answered only after that call has ended and, for
\* a 200, after the whole body is in the file.
C8_ExactlyOneCall ==
    \A r \in GenIds :
        /\ gcalls[r] <= 1
        /\ gpc[r] \in {"open", "write", "done"} => gcalls[r] = 1
        /\ gresp[r].status # 0 => gpc[r] = "done" /\ gcalls[r] = 1
        /\ gresp[r].status = 200 =>
             /\ Exists(fs, gfile[r])
             /\ Len(fs[gfile[r]]) = Len(gup[r].body)

C8_Witness ==
    \E r \in GenIds : \E p \in GenIds \ {r} :
        /\ gresp[r].status = 500 /\ gcalls[r] = 1
        /\ gresp[p].status = 200 /\ gcalls[p] = 1

\* C9: all or nothing: a generation request answered as failed leaves no
\* file of its own in the directory, and every file GET /image serves holds
\* the complete body of a successful upstream response.
C9_AllOrNothing ==
    /\ \A r \in GenIds : gresp[r].status = 500 => ~Exists(fs, gfile[r])
    /\ sresp.status = 200 =>
         \E r \in GenIds :
            /\ gret[r] = "filename"
            /\ sresp.content = gup[r].body

\* C10: stored images are append-only: once generate_image has returned a
\* file name, no step of any request changes or removes that file, and the
\* set of stored file names never shrinks.
C10_AppendOnly ==
    [][/\ DOMAIN fs \subseteq DOMAIN fs'
       /\ \A r \in GenIds :
            gret[r] = "filename" =>
               /\ Exists(fs', gfile[r])
               /\ fs'[gfile[r]] = fs[gfile[r]]]_vars

C10_Witness ==
    \E r \in GenIds : \E p \in GenIds \ {r} :
        /\ gret[r] = "filename"
        /\ Len(fs[gfile[r]]) > 0
        /\ gret[p] = "raised"
        /\ Exists(fs, gfile[p])
        /\ sresp.status = 200
====
